---- MODULE Spec2Model ----
(***************************************************************************)
(* The request de-duplication and two-tier caching layer of the TTS        *)
(* service: TTSService (src/vits_tts/core/tts_service.py) over a           *)
(* cachetools LRUCache, the output directory and the PiperTTS engine.      *)
(*                                                                         *)
(* Strings are run-length encoded: a string is a sequence of <<c, n>>      *)
(* runs (character c repeated n > 0 times, adjacent runs differ), so that  *)
(* a text of 10000 characters is one run.  SHA-1 and the UTF-8 encoding    *)
(* are taken to be injective: the digest of a byte string is modelled by   *)
(* the byte string itself.                                                 *)
(***************************************************************************)
EXTENDS Integers, Sequences, FiniteSets, TLC

\* ------------------------------------------------------------------ bounds
MaxRequests == 3
CacheCapacity == 2
MaxAccess == 5
MaxChunks == 3

\* ------------------------------------------------------- program constants
max_text_length == 10000
chunk_size == 8192

valid_speeds == {"very_slow", "slow", "normal", "fast", "very_fast"}

\* The labels of the engine's speed table SPEED_VALUES.
SPEED_VALUES == {"very_slow", "slow", "normal", "fast", "very_fast"}

\* Mutant: the table upside down.
length_scale_Inverted(speed) ==
    CASE speed = "very_slow" -> 4
      [] speed = "slow" -> 6
      [] speed = "normal" -> 10
      [] speed = "fast" -> 12
      [] speed = "very_fast" -> 15

\* length_scale = SPEED_VALUES[speed], in tenths: 1.5, 1.2, 1.0, 0.6, 0.4
length_scale(speed) ==
    CASE speed = "very_slow" -> 15
      [] speed = "slow" -> 12
      [] speed = "normal" -> 10
      [] speed = "fast" -> 6
      [] speed = "very_fast" -> 4

\* ----------------------------------------------------------------- strings
RECURSIVE StrLen(_)
StrLen(s) == IF s = <<>> THEN 0 ELSE Head(s)[2] + StrLen(Tail(s))

Concat(s, t) ==
    IF s = <<>> THEN t
    ELSE IF t = <<>> THEN s
    ELSE IF s[Len(s)][1] = t[1][1]
         THEN SubSeq(s, 1, Len(s) - 1)
                \o << <<t[1][1], s[Len(s)][2] + t[1][2]>> >>
                \o Tail(t)
         ELSE s \o t

IsSpace(c) == c \in {" ", "\t", "\n"}

RECURSIVE LStrip(_)
LStrip(s) == IF s # <<>> /\ IsSpace(Head(s)[1]) THEN LStrip(Tail(s)) ELSE s

RECURSIVE RStrip(_)
RStrip(s) ==
    IF s # <<>> /\ IsSpace(s[Len(s)][1]) THEN RStrip(SubSeq(s, 1, Len(s) - 1)) ELSE s

Strip(s) == RStrip(LStrip(s))

Rep(c, n) == << <<c, n>> >>

\* The characters of the speed labels the model uses.
SpeedStr(speed) ==
    CASE speed = "very_slow" ->
           << <<"v",1>>, <<"e",1>>, <<"r",1>>, <<"y",1>>, <<"_",1>>,
              <<"s",1>>, <<"l",1>>, <<"o",1>>, <<"w",1>> >>
      [] speed = "slow" -> << <<"s",1>>, <<"l",1>>, <<"o",1>>, <<"w",1>> >>
      [] speed = "normal" ->
           << <<"n",1>>, <<"o",1>>, <<"r",1>>, <<"m",1>>, <<"a",1>>, <<"l",1>> >>
      [] speed = "fast" -> << <<"f",1>>, <<"a",1>>, <<"s",1>>, <<"t",1>> >>
      [] speed = "very_fast" ->
           << <<"v",1>>, <<"e",1>>, <<"r",1>>, <<"y",1>>, <<"_",1>>,
              <<"f",1>>, <<"a",1>>, <<"s",1>>, <<"t",1>> >>
      [] speed = "banana" ->
           << <<"b",1>>, <<"a",1>>, <<"n",1>>, <<"a",1>>, <<"n",1>>, <<"a",1>> >>
      [] OTHER -> <<>>

\* ---------------------------------------------------------------- requests
Texts ==
    { <<>>, Rep(" ", 2), Rep("a", max_text_length), Rep("a", max_text_length + 1) }

Speeds == {"normal", "fast", "banana", ""}

\* The requests issued: every speed with the text that passes validation, the
\* default speed with the others.
Requests ==
    {q \in Texts \X Speeds : q[2] = "normal" \/ q[1] = Rep("a", max_text_length)}

\* -------------------------------------------------------------- validation
NoError == "none"
EmptyTextError == "Text parameter cannot be empty"
TextTooLongError == "Text too long. Maximum length is 10000 characters"

\* if not text or not text.strip(): raise ValueError(...)
TextIsEmpty(text) == text = <<>> \/ Strip(text) = <<>>

\* Mutant: the limit off by one.
TextTooLong_OffByOne(text) == StrLen(text) >= max_text_length

\* if len(text) > max_text_length: raise ValueError(...)
TextTooLong(text) == StrLen(text) > max_text_length

\* Mutant: only the missing speed gets the default.
NormalizeSpeed_NoCoercion(speed) == IF speed = "" THEN "normal" ELSE speed

\* handle_tts_request: the mapping of "common variations" of the labels
speed_mapping == [s \in {"slow", "normal", "fast", "very_slow", "very_fast"} |-> s]

\* handle_tts_request: if not speed: speed = "normal"; if speed not in
\* valid_speeds: speed = speed_mapping[speed] if it is mapped, else "normal"
NormalizeSpeed(speed) ==
    IF speed = "" THEN "normal"
    ELSE IF speed \notin valid_speeds
         THEN IF speed \in DOMAIN speed_mapping THEN speed_mapping[speed]
              ELSE "normal"
    ELSE speed

\* handle_tts_streaming_request: its own list of the labels
valid_speeds_streaming == {"very_slow", "slow", "normal", "fast", "very_fast"}

\* Mutant: the stream request keeps a speed that is no label.
NormalizeSpeedStreaming_NoCoercion(speed) == IF speed = "" THEN "normal" ELSE speed

\* handle_tts_streaming_request: if not speed: speed = "normal"; if speed not
\* in valid_speeds: speed = "normal"
NormalizeSpeedStreaming(speed) ==
    IF speed = "" THEN "normal"
    ELSE IF speed \notin valid_speeds_streaming THEN "normal"
    ELSE speed

\* Mutant: the fingerprint of the trimmed text.
TextHash_Trimmed(text, speed) == Concat(Strip(text), SpeedStr(speed))

\* hashlib.sha1((text + speed).encode("utf-8")).hexdigest()
TextHash(text, speed) == Concat(text, SpeedStr(speed))

\* Mutant: a file name without the extension.
FileName_NoExtension(text_hash) == <<text_hash, "">>

\* f"{text_hash}.wav"
FileName(text_hash) == <<text_hash, ".wav">>

\* Mutant: one key for both request shapes.
CacheKey_NoNamespace(ns, text_hash) == <<"audio:", text_hash>>

\* f"file:{text_hash}" and f"stream:{...}"
CacheKey(ns, text_hash) == <<ns, text_hash>>

\* -------------------------------------------------- cachetools.LRUCache
\* A cache is a sequence of [key, val] entries in LRU order: the head is the
\* least recently used entry, the one popitem() evicts.
CacheKeys(c) == {c[i].key : i \in 1..Len(c)}

\* key in cache (Cache.__contains__: no change of the order)
CacheContains(c, k) == k \in CacheKeys(c)

CacheIndex(c, k) == CHOOSE i \in 1..Len(c) : c[i].key = k

CacheValue(c, k) == c[CacheIndex(c, k)].val

CacheRemove(c, k) ==
    LET i == CacheIndex(c, k)
    IN SubSeq(c, 1, i - 1) \o SubSeq(c, i + 1, Len(c))

\* Mutant: a read that leaves the order alone (first in, first out).
CacheGetItem_NoPromote(c, k) == c

\* Mutant: a promotion cut in two, the key is entered at the recent end of
\* the order and its old place is not removed.
CacheGetItem_NoUnlink(c, k) == Append(c, [key |-> k, val |-> CacheValue(c, k)])

\* cache[key] (LRUCache.__getitem__: the entry becomes the most recently used)
CacheGetItem(c, k) == Append(CacheRemove(c, k), [key |-> k, val |-> CacheValue(c, k)])

RECURSIVE CacheEvict(_, _)
CacheEvict(c, maxsz) ==
    IF Len(c) + 1 > maxsz /\ c # <<>> THEN CacheEvict(Tail(c), maxsz) ELSE c

\* Mutant: each namespace has the capacity for itself: only entries of the
\* namespace of the new key count and are evicted.
CacheSetItem_PerNamespace(c, maxsz, k, v) ==
    LET own == {i \in 1..Len(c) : c[i].key[1] = k[1]}
        oldest == CHOOSE i \in own : \A j \in own : i <= j
    IN  IF CacheContains(c, k)
        THEN Append(CacheRemove(c, k), [key |-> k, val |-> v])
        ELSE IF Cardinality(own) + 1 > maxsz
        THEN Append(CacheRemove(c, c[oldest].key), [key |-> k, val |-> v])
        ELSE Append(c, [key |-> k, val |-> v])

\* Mutant: a cache that never evicts.
CacheSetItem_NoEvict(c, maxsz, k, v) ==
    IF CacheContains(c, k)
    THEN Append(CacheRemove(c, k), [key |-> k, val |-> v])
    ELSE Append(c, [key |-> k, val |-> v])

\* cache[key] = value (LRUCache.__setitem__: evicts from the head while the
\* cache is full and the key is new, then makes the key the most recently used)
CacheSetItem(c, maxsz, k, v) ==
    IF CacheContains(c, k)
    THEN Append(CacheRemove(c, k), [key |-> k, val |-> v])
    ELSE Append(CacheEvict(c, maxsz), [key |-> k, val |-> v])

\* ------------------------------------------------------------------ state
VARIABLES
    cache,        \* TTSService.cache: the LRUCache, as a sequence of entries
    maxsize,      \* LRUCache.maxsize
    heap,         \* the BytesIO objects: id -> [len, pos]
    disk,         \* the files of audio_output_dir: name -> "partial" | "complete"
    dirExists,    \* whether audio_output_dir exists
    nFileSynth,   \* invocations of PiperTTS.text_to_speech
    nStreamSynth, \* invocations of PiperTTS.text_to_speech_streaming
    nreq,         \* requests issued so far
    history,      \* the results of the latest run of identical requests (its last two)
    readers,      \* the generators returned to stream requests: request -> state
    accessLog,    \* a log: the accesses of the cache exercised on its own, or
                  \* the invocations of the engine
    inbox,        \* the HTTP requests received and not yet dispatched
    running,      \* the handler that occupies the event loop, or Idle
    audio_output_dir, \* TTSService.audio_output_dir, from the configuration
    procs         \* the service processes that share the output directory

vars == <<cache, maxsize, heap, disk, dirExists, nFileSynth, nStreamSynth,
          nreq, history, readers, accessLog, inbox, running, audio_output_dir,
          procs>>

\* The event loop runs no handler.
Idle == [mode |-> "idle"]

Marker == [kind |-> "marker", id |-> 0]
Buffer(id) == [kind |-> "buffer", id |-> id]

\* Mutant: a filesystem check that never finds the file.
IsFile_Never(d, de, file_name) == FALSE

\* Mutant: every path is taken for a file.
IsFile_Always(d, de, file_name) == TRUE

\* (Path(audio_output_dir) / file_name).is_file()
IsFile(d, de, file_name) == de /\ file_name \in DOMAIN d

\* Mutant: a file request that consults neither the cache nor the disk.
FileLookup_AlwaysMiss(c, d, de, cache_key, file_name) == "miss"

\* Mutant: the directory is consulted before the cache.
FileLookup_DiskFirst(c, d, de, cache_key, file_name) ==
    IF IsFile(d, de, file_name) THEN "fs_hit"
    ELSE IF CacheContains(c, cache_key) THEN "memory_hit"
    ELSE "miss"

\* The lookups of a file request: "if cache_key in self.cache", then
\* "if file_path.is_file()".
FileLookup(c, d, de, cache_key, file_name) ==
    IF CacheContains(c, cache_key) THEN "memory_hit"
    ELSE IF IsFile(d, de, file_name) THEN "fs_hit"
    ELSE "miss"

\* Mutant: a stream request that does not consult the cache.
StreamLookup_AlwaysMiss(c, cache_key) == "miss"

\* The lookup of a stream request: "if cache_key in self.cache".
StreamLookup(c, cache_key) ==
    IF CacheContains(c, cache_key) THEN "memory_hit" ELSE "miss"

\* What the environment and the engine do during one request: mkdir fails
\* (only a directory that does not exist yet can fail to be created), the
\* write probe fails, the engine raises before it opened the output file, or
\* raises after wave.open created it.
FileFaults == {"none", "mkdir_fail", "perm_fail", "engine_fail", "engine_fail_partial"}
StreamFaults == {"none", "engine_fail"}

\* The engine may also raise a ValueError, which the handlers treat apart
\* from every other exception.
EngineFaults == {"engine_value_error"}

\* The engine may return without raising although it left no file at the
\* output path, or a file of zero length.
EngineOutcomes == {"engine_no_file", "engine_empty_file"}

\* str(e) of a ValueError raised inside the engine.
EngineCause == "engine: ValueError"
BufLens == {chunk_size, chunk_size + 100}

ErrorResult(c, h, d, de, msg) ==
    [cache |-> c, heap |-> h, disk |-> d, dirExists |-> de,
     status |-> "error", msg |-> msg, hash |-> <<>>, speed |-> "",
     text |-> <<>>, file_name |-> <<>>, path |-> "error", calls |-> 0,
     engineSpeed |-> "", scale |-> 0, fp |-> <<>>, nspeed |-> "", buf |-> 0]

Rejected(c, h, d, de, msg) ==
    [ErrorResult(c, h, d, de, msg) EXCEPT !.path = "rejected"]

\* Mutant: the directory is neither created nor probed.
EnsureOutputDir_Unchecked(de, fault) == NoError

\* output_dir.mkdir(parents=True, exist_ok=True), then the write probe
\* (touch and unlink of .permission_test): the message of the error raised,
\* or NoError.
EnsureOutputDir(de, fault) ==
    IF ~de /\ fault = "mkdir_fail"
    THEN "Cannot create audio output directory"
    ELSE IF fault = "perm_fail"
    THEN "Insufficient permissions to write to audio directory"
    ELSE NoError

\* TTSService.handle_tts_request after validation: the memory cache, the
\* filesystem check and the full miss.
FileServe(c, maxsz, h, d, de, text, speed, fault) ==
    LET text_hash == TextHash(text, speed)
        file_name == FileName(text_hash)
        cache_key == CacheKey("file:", text_hash)
        ok(c2, d2, de2, path, calls) ==
            [cache |-> c2, heap |-> h, disk |-> d2, dirExists |-> de2,
             status |-> "ok", msg |-> NoError, hash |-> text_hash, speed |-> speed,
             text |-> text, file_name |-> file_name, path |-> path, calls |-> calls,
             engineSpeed |-> IF calls = 1 THEN speed ELSE "",
             scale |-> IF calls = 1 THEN length_scale(speed) ELSE 0,
             fp |-> text_hash, nspeed |-> speed, buf |-> 0]
        failed(d2, de2, msg, calls) ==
            [ErrorResult(c, h, d2, de2, msg) EXCEPT
                !.fp = text_hash, !.nspeed = speed, !.calls = calls,
                !.engineSpeed = IF calls = 1 THEN speed ELSE "",
                !.scale = IF calls = 1 /\ speed \in SPEED_VALUES
                          THEN length_scale(speed) ELSE 0]
        found == FileLookup(c, d, de, cache_key, file_name)
    IN  IF found = "memory_hit"
        THEN ok(c, d, de, "memory_hit", 0)
        ELSE IF found = "fs_hit"
        THEN ok(CacheSetItem(c, maxsz, cache_key, Marker), d, de, "fs_hit", 0)
        ELSE IF EnsureOutputDir(de, fault) # NoError
        THEN failed(d, de \/ fault = "perm_fail", EnsureOutputDir(de, fault), 0)
        ELSE IF speed \notin SPEED_VALUES
        THEN failed(d, TRUE, "Invalid speed", 1)
        ELSE IF fault = "engine_fail"
        THEN failed(d, TRUE, "Failed to synthesize audio", 1)
        ELSE IF fault = "engine_value_error"
        THEN failed(d, TRUE, EngineCause, 1)
        ELSE IF fault = "engine_fail_partial"
        THEN failed((file_name :> "partial") @@ d, TRUE, "Failed to synthesize audio", 1)
        ELSE LET d2 == IF fault = "engine_no_file" THEN d
                       ELSE (file_name :> (IF fault = "engine_empty_file"
                                           THEN "empty" ELSE "complete")) @@ d
             IN  IF IsFile(d2, TRUE, file_name)
                 THEN ok(CacheSetItem(c, maxsz, cache_key, Marker), d2, TRUE, "miss", 1)
                 ELSE failed(d2, TRUE, "Audio file generation failed", 1)

\* Mutant: the length of the text is checked after the request was served.
handle_tts_request_LateLengthCheck(c, maxsz, h, d, de, text, speed, fault) ==
    IF TextIsEmpty(text) THEN Rejected(c, h, d, de, EmptyTextError)
    ELSE LET r == FileServe(c, maxsz, h, d, de, text, NormalizeSpeed(speed), fault)
         IN  IF TextTooLong(text)
             THEN [Rejected(r.cache, r.heap, r.disk, r.dirExists, TextTooLongError)
                      EXCEPT !.calls = r.calls]
             ELSE r

\* Mutant: the fingerprint ignores the speed once the cache holds an entry.
handle_tts_request_WarmIgnoresSpeed(c, maxsz, h, d, de, text, speed, fault) ==
    IF TextIsEmpty(text) THEN Rejected(c, h, d, de, EmptyTextError)
    ELSE IF TextTooLong(text) THEN Rejected(c, h, d, de, TextTooLongError)
    ELSE FileServe(c, maxsz, h, d, de, text,
                   IF c = <<>> THEN NormalizeSpeed(speed) ELSE "normal", fault)

\* TTSService.handle_tts_request
handle_tts_request(c, maxsz, h, d, de, text, speed, fault) ==
    IF TextIsEmpty(text) THEN Rejected(c, h, d, de, EmptyTextError)
    ELSE IF TextTooLong(text) THEN Rejected(c, h, d, de, TextTooLongError)
    ELSE FileServe(c, maxsz, h, d, de, text, NormalizeSpeed(speed), fault)

\* The streaming synthesis may yield no chunk at all.
StreamOutcomes == {"engine_no_chunks"}

\* len(b"".join(audio_chunks)), for the chunks given by their sizes
RECURSIVE JoinLen(_)
JoinLen(audio_chunks) ==
    IF audio_chunks = <<>> THEN 0
    ELSE Head(audio_chunks) + JoinLen(Tail(audio_chunks))

\* Mutant: no check of the audio parameters: a buffer that holds the WAV
\* header and no frame is returned when the voice yields no chunk.
text_to_speech_streaming_Unchecked(audio_chunks) ==
    [raised |-> NoError, len |-> 44 + JoinLen(audio_chunks)]

\* PiperTTS.text_to_speech_streaming, from the chunks the voice yields: the
\* sample rate, sample width and channel count are those of the first
\* chunk, and without a chunk the engine raises; otherwise the buffer holds
\* the WAV header (44 bytes) and the joined chunks.
text_to_speech_streaming(audio_chunks) ==
    IF audio_chunks = <<>>
    THEN [raised |-> "No audio data generated", len |-> 0]
    ELSE [raised |-> NoError, len |-> 44 + JoinLen(audio_chunks)]

\* f"Failed to synthesize streaming audio: {str(e)}"
StreamFailure(cause) ==
    IF cause = "No audio data generated"
    THEN "Failed to synthesize streaming audio: No audio data generated"
    ELSE "Failed to synthesize streaming audio"

\* Mutant: a hit that leaves the read position where the last reader left it.
Rewind_NoSeek(h, id) == h

\* audio_buffer.seek(0)
Rewind(h, id) == [h EXCEPT ![id].pos = 0]

\* TTSService.handle_tts_streaming_request after validation: the cache
\* lookup, the streaming synthesis and the buffer handed to the generator.
\* id names the BytesIO object a synthesis creates, len its size in bytes.
StreamServe(c, maxsz, h, d, de, text, speed, fault, len, id) ==
    LET text_hash == TextHash(text, speed)
        cache_key == CacheKey("stream:", text_hash)
        ok(c2, h2, b, path, calls) ==
            [cache |-> c2, heap |-> h2, disk |-> d, dirExists |-> de,
             status |-> "ok", msg |-> NoError, hash |-> <<>>, speed |-> speed,
             text |-> <<>>, file_name |-> <<>>, path |-> path, calls |-> calls,
             engineSpeed |-> IF calls = 1 THEN speed ELSE "",
             scale |-> IF calls = 1 THEN length_scale(speed) ELSE 0,
             fp |-> text_hash, nspeed |-> speed, buf |-> b]
    IN  IF StreamLookup(c, cache_key) = "memory_hit"
        THEN LET v == CacheValue(c, cache_key)
                 c2 == CacheGetItem(c, cache_key)
             IN  IF v.kind = "buffer"
                 THEN ok(c2, Rewind(h, v.id), v.id, "memory_hit", 0)
                 ELSE [ErrorResult(c2, h, d, de, "AttributeError: seek") EXCEPT
                          !.fp = text_hash, !.nspeed = speed]
        ELSE IF speed \notin SPEED_VALUES
        THEN [ErrorResult(c, h, d, de, "Invalid speed") EXCEPT
                 !.fp = text_hash, !.nspeed = speed, !.calls = 1,
                 !.engineSpeed = speed]
        ELSE IF fault = "engine_fail"
        THEN [ErrorResult(c, h, d, de, "Failed to synthesize streaming audio") EXCEPT
                 !.fp = text_hash, !.nspeed = speed, !.calls = 1,
                 !.engineSpeed = speed, !.scale = length_scale(speed)]
        ELSE IF fault = "engine_value_error"
        THEN [ErrorResult(c, h, d, de, EngineCause) EXCEPT
                 !.fp = text_hash, !.nspeed = speed, !.calls = 1,
                 !.engineSpeed = speed, !.scale = length_scale(speed)]
        ELSE LET engine == text_to_speech_streaming(
                               IF fault = "engine_no_chunks" THEN <<>>
                               ELSE <<len - 44>>)
             IN  IF engine.raised # NoError
                 THEN [ErrorResult(c, h, d, de, StreamFailure(engine.raised)) EXCEPT
                          !.fp = text_hash, !.nspeed = speed, !.calls = 1,
                          !.engineSpeed = speed, !.scale = length_scale(speed)]
                 ELSE ok(CacheSetItem(c, maxsz, cache_key, Buffer(id)),
                         (id :> [len |-> engine.len, pos |-> 0]) @@ h, id, "miss", 1)

\* TTSService.handle_tts_streaming_request
handle_tts_streaming_request(c, maxsz, h, d, de, text, speed, fault, len, id) ==
    IF TextIsEmpty(text) THEN Rejected(c, h, d, de, EmptyTextError)
    ELSE IF TextTooLong(text) THEN Rejected(c, h, d, de, TextTooLongError)
    ELSE StreamServe(c, maxsz, h, d, de, text, NormalizeSpeedStreaming(speed), fault,
                     len, id)

\* Mutant: a read that always reports a full chunk while bytes remain.
ReadLen_NoClamp(b) == IF b.pos < b.len THEN chunk_size ELSE 0

\* audio_buffer.read(chunk_size): the bytes [pos, pos + n) of the buffer
ReadLen(b) == IF b.len - b.pos < chunk_size THEN b.len - b.pos ELSE chunk_size

\* Mutant: a read that consumes: the bytes read are dropped from the buffer.
AfterRead_Consuming(b, k) == [b EXCEPT !.len = b.len - k]

\* The buffer after read(k): the position advances, the content stays.
AfterRead(b, k) == [b EXCEPT !.pos = b.pos + k]

\* The bytes a reader has received, as the intervals <<buffer, from, to>> of
\* buffer content, adjacent intervals joined.
AppendChunk(out, id, from, to) ==
    IF out # <<>> /\ out[Len(out)][1] = id /\ out[Len(out)][3] = from
    THEN SubSeq(out, 1, Len(out) - 1) \o << <<id, out[Len(out)][2], to>> >>
    ELSE Append(out, <<id, from, to>>)

\* ---------------------------------------------------------------- actions
\* The status of the response of GET /tts: generate_tts handles no exception,
\* and the framework answers an exception that is no HTTPException with 500.
generate_tts_status(r) == IF r.status = "ok" THEN 200 ELSE 500

\* The status of the response of GET /tts/stream: except Exception:
\* raise HTTPException(status_code=500, ...)
stream_tts_status(r) == IF r.status = "ok" THEN 200 ELSE 500

\* What is recorded of a request: its shape, its text, whether its speed was
\* one of the five labels, what it returned or raised (status, msg, hash,
\* text, speed, file_name) and what it did (the path it took, the engine
\* invocations it made, the speed the engine received and the length_scale
\* it synthesized with, in tenths, the fingerprint it computed, the
\* normalized speed), the status of the HTTP response and the audio_url
\* of the response of GET /tts, f"/audio/{result['file_name']}".
Result(n, mode, r, given_text, given_speed) ==
    [n |-> n, mode |-> mode, given |-> given_text,
     canonical |-> given_speed \in {"very_slow", "slow", "normal", "fast", "very_fast"}, status |-> r.status, msg |-> r.msg, hash |-> r.hash,
     text |-> r.text, speed |-> r.speed, file_name |-> r.file_name, path |-> r.path,
     calls |-> r.calls, engineSpeed |-> r.engineSpeed, scale |-> r.scale,
     fp |-> r.fp, nspeed |-> r.nspeed,
     http |-> IF mode = "file" THEN generate_tts_status(r) ELSE stream_tts_status(r),
     audio_url |-> IF mode = "file" /\ r.status = "ok"
                   THEN <<"/audio/", r.file_name>> ELSE <<>>]

\* Two requests of one shape with the same text and the same normalized speed.
SameRequest(a, b) ==
    a.mode = b.mode /\ a.fp # <<>> /\ a.fp = b.fp /\ a.nspeed = b.nspeed

Record(hist, res) ==
    IF hist # <<>> /\ SameRequest(hist[Len(hist)], res)
    THEN <<hist[Len(hist)], res>>
    ELSE <<res>>

Active == {n \in DOMAIN readers : ~readers[n].done}

\* The generators still referenced: those that have not finished, and those
\* of the requests in the history, whose output is still to be compared.
Retained(rs, hist) ==
    LET keep == {n \in DOMAIN rs :
                    ~rs[n].done \/ \E i \in 1..Len(hist) : hist[i].n = n}
    IN  [n \in keep |-> rs[n]]

\* Mutant: a buffer that leaves the cache is closed and emptied, also when
\* a generator still reads it.
Referenced_ClosedOnEviction(h, c, rs) ==
    LET cached == {id \in DOMAIN h : \E i \in 1..Len(c) : c[i].val = Buffer(id)}
        read == {id \in DOMAIN h : \E n \in DOMAIN rs : rs[n].buf = id}
    IN  [id \in cached \cup read |->
            IF id \in cached THEN h[id] ELSE [len |-> 0, pos |-> 0]]

\* The BytesIO objects still referenced, by the cache or by a generator.
Referenced(h, c, rs) ==
    LET keep == {id \in DOMAIN h :
                    \/ \E i \in 1..Len(c) : c[i].val = Buffer(id)
                    \/ \E n \in DOMAIN rs : rs[n].buf = id}
    IN  [id \in keep |-> h[id]]

\* GET /tts: one call of handle_tts_request (it never awaits: it is atomic)
FileServed(text, speed, fault) ==
    /\ nreq < MaxRequests
    /\ LET r == handle_tts_request(cache, maxsize, heap, disk, dirExists,
                                   text, speed, fault)
       IN  /\ cache' = r.cache
           /\ disk' = r.disk
           /\ dirExists' = r.dirExists
           /\ nFileSynth' = nFileSynth + r.calls
           /\ history' = Record(history, Result(nreq + 1, "file", r, text, speed))
           /\ readers' = Retained(readers, history')
           /\ heap' = Referenced(r.heap, r.cache, readers')
    /\ nreq' = nreq + 1
    /\ UNCHANGED <<maxsize, audio_output_dir, procs, nStreamSynth, inbox, running>>

FileRequestOf(text, speed, fault) ==
    FileServed(text, speed, fault) /\ UNCHANGED accessLog

FileRequest ==
    \E q \in Requests, fault \in FileFaults :
        FileRequestOf(q[1], q[2], fault)

\* The generator _gen of a request: the buffer it reads, the bytes and the
\* sizes of the chunks it has yielded, whether it has ended and after which
\* request, whether no other generator was unfinished when it was made, and
\* whether it ended because its consumer closed it.
NewReader(buf, solo) ==
    [buf |-> buf, out |-> <<>>, chunks |-> <<>>, done |-> FALSE, doneAt |-> 0,
     solo |-> solo, closed |-> FALSE]

\* GET /tts/stream: one call of handle_tts_streaming_request, which returns
\* the generator _gen without running it
StreamServed(text, speed, fault, len) ==
    /\ nreq < MaxRequests
    /\ LET r == handle_tts_streaming_request(cache, maxsize, heap, disk, dirExists,
                                             text, speed, fault, len, nreq + 1)
       IN  /\ cache' = r.cache
           /\ nStreamSynth' = nStreamSynth + r.calls
           /\ history' = Record(history, Result(nreq + 1, "stream", r, text, speed))
           /\ readers' =
                IF r.status = "ok"
                THEN Retained((nreq + 1 :> NewReader(r.buf, Active = {})) @@ readers,
                              history')
                ELSE Retained(readers, history')
           /\ heap' = Referenced(r.heap, r.cache, readers')
    /\ nreq' = nreq + 1
    /\ UNCHANGED <<maxsize, audio_output_dir, procs, disk, dirExists, nFileSynth, inbox, running>>

StreamRequestOf(text, speed, fault, len) ==
    StreamServed(text, speed, fault, len) /\ UNCHANGED accessLog

StreamRequest ==
    \E q \in Requests, fault \in StreamFaults, len \in BufLens :
        StreamRequestOf(q[1], q[2], fault, len)

\* One iteration of _gen: chunk = audio_buffer.read(chunk_size); the generator
\* ends on an empty chunk and yields any other
ReadChunk ==
    \E n \in Active :
        LET id == readers[n].buf
            b == heap[id]
            k == ReadLen(b)
        IN  /\ IF k = 0
               THEN /\ readers' = Retained([readers EXCEPT ![n].done = TRUE,
                                                            ![n].doneAt = nreq], history)
                    /\ heap' = Referenced(heap, cache, readers')
               ELSE /\ readers' = [readers EXCEPT
                          ![n].out = AppendChunk(@, id, b.pos, b.pos + k),
                          ![n].chunks = Append(@, k)]
                    /\ heap' = [heap EXCEPT ![id] = AfterRead(b, k)]
            /\ UNCHANGED <<cache, maxsize, audio_output_dir, procs, disk, dirExists, nFileSynth, nStreamSynth,
                           nreq, history, accessLog, inbox, running>>

Init ==
    /\ cache = <<>>
    /\ maxsize = CacheCapacity
    /\ audio_output_dir = "audio/"
    /\ procs = <<>>
    /\ heap = <<>>
    /\ disk = <<>>
    /\ dirExists = FALSE
    /\ nFileSynth = 0
    /\ nStreamSynth = 0
    /\ nreq = 0
    /\ history = <<>>
    /\ readers = <<>>
    /\ accessLog = <<>>
    /\ inbox = <<>>
    /\ running = Idle

Next == FileRequest \/ StreamRequest \/ ReadChunk

Spec == Init /\ [][Next]_vars

\* ------------------------------------------- the LRUCache on its own
\* The cache as test_cache_implementation.py exercises it: reads and writes
\* of a few keys on caches of the capacities the tests construct.
LruKeys == {"a", "b", "c", "d"}
TestCapacities == {2, 3}

\* value = cache[k], for a key the cache holds (a missing key raises KeyError)
LruGet(k) ==
    /\ Len(accessLog) < MaxAccess
    /\ CacheContains(cache, k)
    /\ cache' = CacheGetItem(cache, k)
    /\ accessLog' = Append(accessLog, <<"get", k>>)
    /\ UNCHANGED <<maxsize, audio_output_dir, procs, heap, disk, dirExists, nFileSynth, nStreamSynth,
                   nreq, history, readers, inbox, running>>

\* cache[k] = value
LruPut(k) ==
    /\ Len(accessLog) < MaxAccess
    /\ cache' = CacheSetItem(cache, maxsize, k, Marker)
    /\ accessLog' = Append(accessLog, <<"put", k>>)
    /\ UNCHANGED <<maxsize, audio_output_dir, procs, heap, disk, dirExists, nFileSynth, nStreamSynth,
                   nreq, history, readers, inbox, running>>

InitLRU ==
    /\ cache = <<>>
    /\ maxsize \in TestCapacities
    /\ audio_output_dir = "audio/"
    /\ procs = <<>>
    /\ heap = <<>>
    /\ disk = <<>>
    /\ dirExists = FALSE
    /\ nFileSynth = 0
    /\ nStreamSynth = 0
    /\ nreq = 0
    /\ history = <<>>
    /\ readers = <<>>
    /\ accessLog = <<>>
    /\ inbox = <<>>
    /\ running = Idle

CacheGet == \E k \in LruKeys : LruGet(k)

CachePut == \E k \in LruKeys : LruPut(k)

NextLRU == CacheGet \/ CachePut

SpecLRU == InitLRU /\ [][NextLRU]_vars

\* ------------------------------------------- one generator on one buffer
\* The sizes of the buffers: up to MaxChunks full chunks and a remainder, and
\* at least the 44 bytes of a WAV header.
Remainders == {0, 1, 44, 100, 4096, 8000, 8191}

ChunkLens ==
    {k * chunk_size + r : k \in 0..MaxChunks, r \in Remainders} \ (0..43)

\* The state after the first stream request of a service: the engine returned
\* a buffer of some length, which is cached and handed to the generator.
InitChunks ==
    \E len \in ChunkLens :
        LET text == Rep("a", max_text_length)
            r == handle_tts_streaming_request(<<>>, CacheCapacity, <<>>, <<>>, FALSE,
                                              text, "normal", "none", len, 1)
        IN  /\ cache = r.cache
            /\ maxsize = CacheCapacity
            /\ audio_output_dir = "audio/"
            /\ procs = <<>>
            /\ heap = r.heap
            /\ disk = r.disk
            /\ dirExists = r.dirExists
            /\ nFileSynth = 0
            /\ nStreamSynth = r.calls
            /\ nreq = 1
            /\ history = <<Result(1, "stream", r, text, "normal")>>
            /\ readers = (1 :> NewReader(r.buf, TRUE))
            /\ accessLog = <<>>
            /\ inbox = <<>>
            /\ running = Idle

NextChunks == ReadChunk

SpecChunks == InitChunks /\ [][NextChunks]_vars

\* ------------------------------- many inputs, one service, process restarts
\* The texts "a" and "avery_" and a text with a character outside ASCII.
ShortText == << <<"a",1>> >>
PrefixText ==
    << <<"a",1>>, <<"v",1>>, <<"e",1>>, <<"r",1>>, <<"y",1>>, <<"_",1>> >>
AccentedText == << <<"x",1>>, <<"à",1>>, <<"o",1>> >>

AllSpeeds == {"very_slow", "slow", "normal", "fast", "very_fast", "banana", ""}

\* Every speed with the short text, one speed with each of the other texts.
Inputs ==
    {q \in {ShortText, PrefixText, AccentedText} \X AllSpeeds :
        \/ q[1] = ShortText
        \/ q[1] = PrefixText /\ q[2] = "slow"
        \/ q[1] = AccentedText /\ q[2] = "normal"}

\* The process ends and a new one starts: the cache is created anew, the
\* generators of the old process are gone, the output directory stays.
Restart ==
    /\ cache' = <<>>
    /\ heap' = <<>>
    /\ readers' = <<>>
    /\ UNCHANGED <<maxsize, audio_output_dir, procs, disk, dirExists, nFileSynth, nStreamSynth, nreq,
                   history, accessLog, inbox, running>>

\* The engine succeeds, or fails after wave.open created the output file.
InputFaults == {"none", "engine_fail_partial"}

FileInput == \E q \in Inputs, fault \in InputFaults : FileRequestOf(q[1], q[2], fault)

StreamInput == \E q \in Inputs : StreamRequestOf(q[1], q[2], "none", chunk_size)

\* The generators are left unconsumed here: the requests differ in their
\* inputs, not in the interleaving of their readers.
NextInputs == FileInput \/ StreamInput \/ Restart

SpecInputs == Init /\ [][NextInputs]_vars

\* ------------------------------------------ the configured output directory
\* The values of tts.audio_output_dir: the default and another directory.
OutputDirs == {"audio/", "output/"}

\* Path(p): a trailing slash names the same directory.
Directory(path) ==
    CASE path = "audio/" -> "audio"
      [] path = "output/" -> "output"
      [] OTHER -> path

\* StaticFilesConfig(path="/audio", directories=["audio"])
StaticDirectory == "audio"

\* GET of a URL under /audio: the file of that name in the static directory,
\* which holds the files of the service only when it is the output directory.
StaticFile(url) ==
    IF /\ Len(url) = 2
       /\ url[1] = "/audio/"
       /\ Directory(audio_output_dir) = StaticDirectory
       /\ IsFile(disk, dirExists, url[2])
    THEN disk[url[2]]
    ELSE "404"

InitConfigured ==
    /\ cache = <<>>
    /\ maxsize = CacheCapacity
    /\ audio_output_dir \in OutputDirs
    /\ procs = <<>>
    /\ heap = <<>>
    /\ disk = <<>>
    /\ dirExists = FALSE
    /\ nFileSynth = 0
    /\ nStreamSynth = 0
    /\ nreq = 0
    /\ history = <<>>
    /\ readers = <<>>
    /\ accessLog = <<>>
    /\ inbox = <<>>
    /\ running = Idle

SpecConfigured == InitConfigured /\ [][NextInputs]_vars

\* ------------------------------------------ one request, every failure
\* The valid request of Requests with the default speed, under every failure
\* of the directory and of the engine.
FileFault ==
    \E fault \in FileFaults \cup EngineFaults \cup EngineOutcomes :
        FileRequestOf(Rep("a", max_text_length), "normal", fault)

StreamFault ==
    \E fault \in StreamFaults \cup EngineFaults \cup StreamOutcomes :
        StreamRequestOf(Rep("a", max_text_length), "normal", fault, chunk_size)

\* A request that validation rejects.
Invalid ==
    \E q \in Requests :
        /\ TextIsEmpty(q[1]) \/ TextTooLong(q[1])
        /\ \/ FileRequestOf(q[1], q[2], "none")
           \/ StreamRequestOf(q[1], q[2], "none", chunk_size)

NextFaults == FileFault \/ StreamFault \/ Invalid

SpecFaults == Init /\ [][NextFaults]_vars

\* ------------------------------------------------ the HTTP application
\* LRUCache(maxsize=128): a new, empty cache
provide_audio_cache == <<>>

AppRequests == {q \in Requests : q[2] \in {"normal", "fast"}}

\* A request arrives at the server.
Receive ==
    \E q \in AppRequests, mode \in {"file", "stream"} :
        /\ nreq + Len(inbox) + (IF running = Idle THEN 0 ELSE 1) < MaxRequests
        /\ inbox' = Append(inbox, [mode |-> mode, text |-> q[1], speed |-> q[2]])
        /\ UNCHANGED <<cache, maxsize, audio_output_dir, procs, heap, disk, dirExists, nFileSynth,
                       nStreamSynth, nreq, history, readers, accessLog, running>>

\* The handler of a request, called with the service that the dependency
\* "service" provides: provide_tts_service runs for every request (Provide
\* without use_cache) and gives the service a cache of its own.
Handle(req) ==
    IF req.mode = "file"
    THEN handle_tts_request(provide_audio_cache, maxsize, heap, disk, dirExists,
                            req.text, req.speed, "none")
    ELSE handle_tts_streaming_request(provide_audio_cache, maxsize, heap, disk,
                                      dirExists, req.text, req.speed, "none",
                                      chunk_size, nreq + 1)

\* The handler returns or raises: its effects and the response.
Respond(req, r) ==
    /\ cache' = r.cache
    /\ disk' = r.disk
    /\ dirExists' = r.dirExists
    /\ nFileSynth' = nFileSynth + (IF req.mode = "file" THEN r.calls ELSE 0)
    /\ nStreamSynth' = nStreamSynth + (IF req.mode = "stream" THEN r.calls ELSE 0)
    /\ history' = Record(history, Result(nreq + 1, req.mode, r, req.text, req.speed))
    /\ readers' =
         IF req.mode = "stream" /\ r.status = "ok"
         THEN Retained((nreq + 1 :> NewReader(r.buf, Active = {})) @@ readers, history')
         ELSE Retained(readers, history')
    /\ heap' = Referenced(r.heap, r.cache, readers')
    /\ nreq' = nreq + 1

\* The event loop starts the handler of the next request.  The handlers are
\* coroutines that never suspend (async def without an await that yields):
\* one that needs no synthesis returns in the same step, one that calls the
\* engine occupies the loop until the engine returns.
Dispatch ==
    /\ running = Idle
    /\ inbox # <<>>
    /\ inbox' = Tail(inbox)
    /\ LET req == Head(inbox)
           r == Handle(req)
       IN  IF r.calls = 1
           THEN /\ running' = req
                /\ UNCHANGED <<cache, heap, disk, dirExists, nFileSynth,
                               nStreamSynth, nreq, history, readers>>
           ELSE /\ running' = Idle
                /\ Respond(req, r)
    /\ UNCHANGED <<maxsize, audio_output_dir, procs, accessLog>>

\* The engine returns to the handler that called it, and the handler returns.
Finish ==
    /\ running # Idle
    /\ Respond(running, Handle(running))
    /\ running' = Idle
    /\ UNCHANGED <<maxsize, audio_output_dir, procs, accessLog, inbox>>

\* The event loop sends one more chunk of a streaming response.
StreamChunk == running = Idle /\ ReadChunk

NextApp == Receive \/ Dispatch \/ Finish \/ StreamChunk

SpecApp == Init /\ [][NextApp]_vars

\* ------------------------------- two processes, one output directory
\* Two service processes (each with its own LRUCache) write to the same
\* audio_output_dir. A file request is a sequence of steps, one for each
\* access to the directory; the steps of the two processes interleave.
Procs == {1, 2}

ProcRequests == {<<Rep("a", max_text_length), "normal">>,
                 <<Rep("a", max_text_length), "fast">>}

\* test_file = output_dir / ".permission_test"
ProbeFile == <<".permission_test">>

ProcIdle ==
    [pc |-> "idle", text |-> <<>>, speed |-> "", cache |-> <<>>,
     status |-> "", msg |-> NoError, path |-> "", calls |-> 0]

ProcFile(pr) == FileName(TextHash(pr.text, pr.speed))
ProcKey(pr) == CacheKey("file:", TextHash(pr.text, pr.speed))

\* The steps between the lookup that missed and the end of the write.
InMiss == {"mkdir", "touch", "unlink", "open", "write"}

\* Mutant: a lookup that finds out that another process is synthesizing the
\* file and does not synthesize it itself.
ProcLookup_SingleFlight(ps, p, d, de) ==
    IF \E q \in DOMAIN ps \ {p} :
          ps[q].pc \in InMiss /\ ProcFile(ps[q]) = ProcFile(ps[p])
    THEN "in_flight"
    ELSE FileLookup(ps[p].cache, d, de, ProcKey(ps[p]), ProcFile(ps[p]))

\* The lookups of the request of process p: its own cache, then is_file().
ProcLookup(ps, p, d, de) ==
    FileLookup(ps[p].cache, d, de, ProcKey(ps[p]), ProcFile(ps[p]))

ProcUnchanged ==
    UNCHANGED <<cache, maxsize, audio_output_dir, heap, nStreamSynth, history,
                readers, accessLog, inbox, running>>

\* A request reaches process p; validation passes and the speed is a label.
Arrive(p) ==
    \E q \in ProcRequests :
        /\ procs[p].pc \in {"idle", "done"}
        /\ nreq < MaxRequests
        /\ nreq' = nreq + 1
        /\ procs' = [procs EXCEPT ![p] =
              [ProcIdle EXCEPT !.pc = "lookup", !.text = q[1],
                               !.speed = NormalizeSpeed(q[2]),
                               !.cache = procs[p].cache]]
        /\ UNCHANGED <<disk, dirExists, nFileSynth>>
        /\ ProcUnchanged

\* "if cache_key in self.cache" and "if file_path.is_file()"
Lookup(p) ==
    /\ procs[p].pc = "lookup"
    /\ LET found == ProcLookup(procs, p, disk, dirExists)
       IN  procs' = [procs EXCEPT ![p] =
             IF found = "miss"
             THEN [@ EXCEPT !.pc = "mkdir", !.path = "miss"]
             ELSE [@ EXCEPT !.pc = "done", !.status = "ok", !.path = found,
                            !.cache = IF found = "fs_hit"
                                      THEN CacheSetItem(@, maxsize, ProcKey(procs[p]), Marker)
                                      ELSE @]]
    /\ UNCHANGED <<disk, dirExists, nFileSynth, nreq>>
    /\ ProcUnchanged

\* output_dir.mkdir(parents=True, exist_ok=True)
Mkdir(p) ==
    /\ procs[p].pc = "mkdir"
    /\ dirExists' = TRUE
    /\ procs' = [procs EXCEPT ![p].pc = "touch"]
    /\ UNCHANGED <<disk, nFileSynth, nreq>>
    /\ ProcUnchanged

\* test_file.touch(): creates the probe file unless it is there
Touch(p) ==
    /\ procs[p].pc = "touch"
    /\ disk' = IF ProbeFile \in DOMAIN disk THEN disk
               ELSE (ProbeFile :> "empty") @@ disk
    /\ procs' = [procs EXCEPT ![p].pc = "unlink"]
    /\ UNCHANGED <<dirExists, nFileSynth, nreq>>
    /\ ProcUnchanged

\* test_file.unlink(): raises FileNotFoundError when the probe file is not
\* there, which the handler reports as missing write permission.
Unlink(p) ==
    /\ procs[p].pc = "unlink"
    /\ IF ProbeFile \in DOMAIN disk
       THEN /\ disk' = [f \in DOMAIN disk \ {ProbeFile} |-> disk[f]]
            /\ procs' = [procs EXCEPT ![p].pc = "open"]
       ELSE /\ disk' = disk
            /\ procs' = [procs EXCEPT ![p] =
                 [@ EXCEPT !.pc = "done", !.status = "error",
                    !.msg = "Insufficient permissions to write to audio directory"]]
    /\ UNCHANGED <<dirExists, nFileSynth, nreq>>
    /\ ProcUnchanged

\* self.model.text_to_speech(...) up to wave.open(output_path, "wb"), which
\* creates the file or truncates it.
Open(p) ==
    /\ procs[p].pc = "open"
    /\ disk' = (ProcFile(procs[p]) :> "partial") @@ disk
    /\ nFileSynth' = nFileSynth + 1
    /\ procs' = [procs EXCEPT ![p] = [@ EXCEPT !.pc = "write", !.calls = 1]]
    /\ UNCHANGED <<dirExists, nreq>>
    /\ ProcUnchanged

\* synthesize_wav wrote the frames and the with block closed the file. The
\* file holds a whole recording once no other process is writing to it.
Close(p) ==
    /\ procs[p].pc = "write"
    /\ disk' = (ProcFile(procs[p]) :>
                 (IF \E q \in Procs \ {p} :
                        procs[q].pc = "write" /\ ProcFile(procs[q]) = ProcFile(procs[p])
                  THEN "partial" ELSE "complete")) @@ disk
    /\ procs' = [procs EXCEPT ![p].pc = "verify"]
    /\ UNCHANGED <<dirExists, nFileSynth, nreq>>
    /\ ProcUnchanged

\* "if result_path_obj.exists()", then the marker and the return.
Verify(p) ==
    /\ procs[p].pc = "verify"
    /\ procs' = [procs EXCEPT ![p] =
         IF IsFile(disk, dirExists, ProcFile(procs[p]))
         THEN [@ EXCEPT !.pc = "done", !.status = "ok",
                        !.cache = CacheSetItem(@, maxsize, ProcKey(procs[p]), Marker)]
         ELSE [@ EXCEPT !.pc = "done", !.status = "error",
                        !.msg = "Audio file generation failed"]]
    /\ UNCHANGED <<disk, dirExists, nFileSynth, nreq>>
    /\ ProcUnchanged

InitProcs ==
    /\ cache = <<>>
    /\ maxsize = CacheCapacity
    /\ audio_output_dir = "audio/"
    /\ procs = [p \in Procs |-> ProcIdle]
    /\ heap = <<>>
    /\ disk = <<>>
    /\ dirExists = FALSE
    /\ nFileSynth = 0
    /\ nStreamSynth = 0
    /\ nreq = 0
    /\ history = <<>>
    /\ readers = <<>>
    /\ accessLog = <<>>
    /\ inbox = <<>>
    /\ running = Idle

NextProcs ==
    \E p \in Procs :
        \/ Arrive(p)
        \/ Lookup(p)
        \/ Mkdir(p)
        \/ Touch(p)
        \/ Unlink(p)
        \/ Open(p)
        \/ Close(p)
        \/ Verify(p)

SpecProcs == InitProcs /\ [][NextProcs]_vars

\* ------------------------------------------ readers that stop half way
\* Stream requests for one fingerprint whose buffer takes two reads, with
\* consumers that may stop reading: the client went away and the server
\* closed the generator, which reads no more.
ResumeLen == chunk_size + 100

ResumeRequest ==
    StreamRequestOf(Rep("a", max_text_length), "normal", "none", ResumeLen)

Abandon ==
    \E n \in Active :
        /\ readers' = Retained([readers EXCEPT ![n].done = TRUE,
                                               ![n].doneAt = nreq,
                                               ![n].closed = TRUE], history)
        /\ heap' = Referenced(heap, cache, readers')
        /\ UNCHANGED <<cache, maxsize, audio_output_dir, procs, disk, dirExists,
                       nFileSynth, nStreamSynth, nreq, history, accessLog, inbox,
                       running>>

NextResume == ResumeRequest \/ ReadChunk \/ Abandon

SpecResume == Init /\ [][NextResume]_vars

\* ------------------------------------------ one input, both entry points
\* The texts at the edges of validation: empty, blank, of the greatest
\* length and one character longer, and texts with whitespace around them.
PaddedLeft == << <<" ", 1>>, <<"a", 1>> >>
PaddedRight == << <<"a", 1>>, <<" ", 1>> >>
PaddedLong == << <<"a", max_text_length>>, <<" ", 1>> >>
PaddedFull == << <<" ", 1>>, <<"a", max_text_length - 1>> >>

ValidationTexts == Texts \cup {ShortText, PaddedLeft, PaddedRight, PaddedLong, PaddedFull}

\* The query parameters of the request under test, which both entry points
\* are called with.
InitValidation ==
    /\ cache = <<>>
    /\ maxsize = CacheCapacity
    /\ audio_output_dir = "audio/"
    /\ procs = <<>>
    /\ heap = <<>>
    /\ disk = <<>>
    /\ dirExists = FALSE
    /\ nFileSynth = 0
    /\ nStreamSynth = 0
    /\ nreq = 0
    /\ history = <<>>
    /\ readers = <<>>
    /\ accessLog = <<>>
    /\ inbox \in {<<[text |-> t, speed |-> s]>> : t \in ValidationTexts, s \in AllSpeeds}
    /\ running = Idle

FileOfInput == FileRequestOf(inbox[1].text, inbox[1].speed, "none")

StreamOfInput == StreamRequestOf(inbox[1].text, inbox[1].speed, "none", chunk_size)

NextValidation == FileOfInput \/ StreamOfInput

SpecValidation == InitValidation /\ [][NextValidation]_vars

\* ------------------------------------- more fingerprints than capacity
\* Requests of both shapes for two fingerprints, one after another, on a
\* service whose cache holds fewer entries than there are keys; no failure.
\* The log records the invocations of the engine.
EvictRequests == ProcRequests

SmallCapacities == 1..CacheCapacity

LoggedFileRequest ==
    \E q \in EvictRequests :
        /\ FileServed(q[1], q[2], "none")
        /\ accessLog' =
             IF nFileSynth' > nFileSynth
             THEN Append(accessLog,
                         <<"text_to_speech", TextHash(q[1], NormalizeSpeed(q[2]))>>)
             ELSE accessLog

LoggedStreamRequest ==
    \E q \in EvictRequests :
        /\ StreamServed(q[1], q[2], "none", chunk_size)
        /\ accessLog' =
             IF nStreamSynth' > nStreamSynth
             THEN Append(accessLog,
                         <<"text_to_speech_streaming",
                           TextHash(q[1], NormalizeSpeedStreaming(q[2]))>>)
             ELSE accessLog

InitEvict ==
    /\ cache = <<>>
    /\ maxsize \in SmallCapacities
    /\ audio_output_dir = "audio/"
    /\ procs = <<>>
    /\ heap = <<>>
    /\ disk = <<>>
    /\ dirExists = FALSE
    /\ nFileSynth = 0
    /\ nStreamSynth = 0
    /\ nreq = 0
    /\ history = <<>>
    /\ readers = <<>>
    /\ accessLog = <<>>
    /\ inbox = <<>>
    /\ running = Idle

NextEvict == LoggedFileRequest \/ LoggedStreamRequest

SpecEvict == InitEvict /\ [][NextEvict]_vars

\* ------------------------------------ eviction under a running reader
\* Stream requests for two fingerprints on a cache smaller than the number
\* of keys, with buffers that take two reads, and the generators reading.
DetachRequest ==
    \E q \in EvictRequests :
        StreamRequestOf(q[1], q[2], "none", ResumeLen)

NextDetach == DetachRequest \/ ReadChunk

SpecDetach == InitEvict /\ [][NextDetach]_vars

\* ------------------------------------------------------------------ claims
Last == history[Len(history)]

\* The history holds two consecutive requests of the given shape, identical
\* in text and normalized speed, that both returned.
TwoReturned(mode) ==
    /\ Len(history) = 2
    /\ history[1].mode = mode
    /\ history[1].status = "ok"
    /\ history[2].status = "ok"

\* C1: two identical file requests issued one after the other, both
\* returning, return the same hash and the same file_name, leave exactly one
\* file of that name in the output directory and invoke text_to_speech at
\* most once in total.
C1_IdempotentFile ==
    TwoReturned("file") =>
        /\ history[2].hash = history[1].hash
        /\ history[2].file_name = history[1].file_name
        /\ history[2].file_name = <<history[2].hash, ".wav">>
        /\ Cardinality({f \in DOMAIN disk : f = history[2].file_name}) = 1
        /\ history[1].calls + history[2].calls <= 1

C1_Witness ==
    /\ TwoReturned("file")
    /\ history[1].path = "miss"
    /\ history[2].path = "memory_hit"
    /\ nFileSynth = 1

\* The two stream requests of the history were the only ones being streamed:
\* no generator was unfinished when the first was issued, the first was
\* consumed to its end before the second was issued, and the second was
\* consumed to its end before any later request.
TwoStreamed ==
    /\ TwoReturned("stream")
    /\ history[1].n \in DOMAIN readers
    /\ history[2].n \in DOMAIN readers
    /\ readers[history[1].n].solo
    /\ readers[history[1].n].done
    /\ readers[history[1].n].doneAt = history[1].n
    /\ readers[history[2].n].done
    /\ readers[history[2].n].doneAt = history[2].n

\* C2: two identical stream requests, the first fully consumed before the
\* second is issued, deliver the same bytes, and text_to_speech_streaming is
\* invoked at most once in total.
C2_IdempotentStream ==
    TwoStreamed =>
        /\ readers[history[2].n].out = readers[history[1].n].out
        /\ history[1].calls + history[2].calls <= 1

C2_Witness ==
    /\ TwoStreamed
    /\ history[1].path = "miss"
    /\ history[2].path = "memory_hit"
    /\ readers[history[2].n].out # <<>>

\* The complete content of the buffer a generator reads.
Complete(n) == << <<readers[n].buf, 0, heap[readers[n].buf].len>> >>

\* C3: whatever the interleaving of the stream requests that share a cached
\* buffer, every request that is consumed to the end has received the
\* complete buffer.
C3_IndependentCursors ==
    \A n \in DOMAIN readers : readers[n].done => readers[n].out = Complete(n)

\* A step that issues a request of the given shape which passes validation;
\* Last' is what is recorded of it.
Served(mode) ==
    /\ nreq' = nreq + 1
    /\ history'[Len(history')].mode = mode
    /\ history'[Len(history')].path # "rejected"

\* C4: a stream request is answered from the cache only if stream:{fp} is
\* cached, and synthesizes whenever it is not, whatever file:{fp} and the
\* disk hold; a file request is a memory hit only if file:{fp} is cached;
\* the two keys of a fingerprint differ.
C4_NamespaceIsolation ==
    [][LET res == history'[Len(history')]
           fileCached == \E i \in 1..Len(cache) : cache[i].key = <<"file:", res.fp>>
           streamCached == \E i \in 1..Len(cache) : cache[i].key = <<"stream:", res.fp>>
       IN  /\ Served("stream") =>
                /\ CacheKey("file:", res.fp) # CacheKey("stream:", res.fp)
                /\ res.path = "memory_hit" => streamCached
                /\ ~streamCached => res.calls = 1 /\ nStreamSynth' = nStreamSynth + 1
           /\ Served("file") =>
                /\ res.path = "memory_hit" => fileCached
                /\ ~fileCached => res.path \in {"fs_hit", "miss", "error"}
      ]_vars

C4_Witness ==
    /\ history # <<>>
    /\ Last.mode = "stream"
    /\ Last.path = "miss"
    /\ Last.status = "ok"
    /\ <<"file:", Last.fp>> \in CacheKeys(cache)
    /\ <<Last.fp, ".wav">> \in DOMAIN disk

\* C5: the cache never holds more entries than its capacity.
C5_CapacityBound == Len(cache) <= maxsize /\ maxsize = CacheCapacity

\* The cache is full and an entry was evicted: a file that a request wrote
\* has lost the marker that request stored.
C5_Witness ==
    /\ Len(cache) = maxsize
    /\ \E f \in DOMAIN disk :
          disk[f] = "complete" /\ <<"file:", f[1]>> \notin CacheKeys(cache)

\* The position in the log of the latest access (get or put) of a key.
LastAccess(log, k) ==
    CHOOSE i \in 1..Len(log) :
        log[i][2] = k /\ \A j \in (i + 1)..Len(log) : log[j][2] # k

\* The key of the cache whose latest access is the oldest.
Oldest(c, log) ==
    CHOOSE k \in CacheKeys(c) :
        \A j \in CacheKeys(c) : LastAccess(log, k) <= LastAccess(log, j)

LruScenario ==
    << <<"put", "a">>, <<"put", "b">>, <<"put", "c">>, <<"get", "a">>, <<"put", "d">> >>

\* C6: putting a new key into a full cache evicts exactly the entry whose
\* latest access is the oldest and keeps the others; with capacity 3, put a,
\* b, c, get a, put d leaves a, c, d.
C6_LruEviction ==
    [][/\ \A k \in LruKeys :
            (/\ accessLog' = Append(accessLog, <<"put", k>>)
             /\ k \notin CacheKeys(cache)
             /\ Len(cache) = maxsize)
            => CacheKeys(cache') =
                 (CacheKeys(cache) \ {Oldest(cache, accessLog)}) \cup {k}
       /\ (accessLog' = LruScenario /\ maxsize = 3)
            => CacheKeys(cache') = {"a", "c", "d"}
      ]_vars

C6_Witness ==
    /\ accessLog = LruScenario
    /\ maxsize = 3
    /\ CacheKeys(cache) = {"a", "c", "d"}

\* The second request of the history was not stopped by a directory failure.
SecondReachedEngineOrCache ==
    history[2].msg \notin {"Cannot create audio output directory",
                           "Insufficient permissions to write to audio directory"}

\* C7: after the engine failed during a miss nothing is cached for the
\* fingerprint, and the next identical request is answered neither from the
\* memory cache nor from the filesystem check: it invokes the engine again.
C7_FailedSynthesisRetried ==
    /\ (history # <<>> /\ Last.status = "error" /\ Last.calls = 1)
          => \A ns \in {"file:", "stream:"} :
                ns = (IF Last.mode = "file" THEN "file:" ELSE "stream:")
                   => <<ns, Last.fp>> \notin CacheKeys(cache)
    /\ (/\ Len(history) = 2
        /\ history[1].status = "error"
        /\ history[1].calls = 1
        /\ SecondReachedEngineOrCache)
          => /\ history[2].path \notin {"memory_hit", "fs_hit"}
             /\ history[2].calls = 1

\* A text that is empty or holds whitespace only.
Blank(text) == \A i \in 1..Len(text) : text[i][1] \in {" ", "\t", "\n"}

\* C8: both request shapes reject, with the error of validation, a text that
\* is empty or whitespace only and a text of more than 10000 characters; any
\* other text, one of exactly 10000 characters included, passes validation.
C8_ValidationBoundaries ==
    \A i \in 1..Len(history) :
        LET r == history[i]
        IN  IF Blank(r.given)
            THEN r.status = "error" /\ r.path = "rejected" /\ r.msg = EmptyTextError
            ELSE IF StrLen(r.given) > 10000
            THEN r.status = "error" /\ r.path = "rejected" /\ r.msg = TextTooLongError
            ELSE r.path # "rejected" /\ r.msg \notin {EmptyTextError, TextTooLongError}

C8_Witness ==
    /\ history # <<>>
    /\ Last.mode = "stream"
    /\ StrLen(Last.given) = 10001
    /\ Last.path = "rejected"
    /\ cache # <<>>

\* C9: a speed that is none of the five labels is never rejected; the request
\* is handled as the request with speed normal: same fingerprint, cache key
\* and file, the engine receives normal and the response reports normal.
C9_SpeedCoercedToNormal ==
    \A i \in 1..Len(history) :
        LET r == history[i]
            fp == Concat(r.given, SpeedStr("normal"))
            key == <<IF r.mode = "file" THEN "file:" ELSE "stream:", fp>>
        IN  (~r.canonical /\ ~Blank(r.given) /\ StrLen(r.given) <= 10000) =>
               /\ r.path # "rejected"
               /\ r.nspeed = "normal"
               /\ r.fp = fp
               /\ r.engineSpeed \in {"", "normal"}
               /\ r.calls = 1 => r.engineSpeed = "normal"
               /\ (r.status = "ok" /\ r.mode = "file") =>
                     /\ r.speed = "normal"
                     /\ r.hash = fp
                     /\ r.file_name = <<fp, ".wav">>
                     /\ r.file_name \in DOMAIN disk
               /\ (r.status = "ok" /\ i = Len(history)) => key \in CacheKeys(cache)

C9_Witness ==
    /\ history # <<>>
    /\ ~Last.canonical
    /\ Last.mode = "file"
    /\ Last.status = "ok"
    /\ Last.calls = 1
    /\ Last.engineSpeed = "normal"
    /\ Last.speed = "normal"

\* C10: a request rejected by validation leaves the cache (its entries, their
\* order and their buffers), the output directory and the engine invocation
\* counts as they were.
C10_RejectionChangesNothing ==
    [][(nreq' = nreq + 1 /\ history'[Len(history')].path = "rejected") =>
          /\ UNCHANGED <<cache, maxsize, disk, dirExists, nFileSynth, nStreamSynth>>
          /\ \A i \in 1..Len(cache) :
                cache[i].val.kind = "buffer" =>
                   /\ cache[i].val.id \in DOMAIN heap'
                   /\ heap'[cache[i].val.id] = heap[cache[i].val.id]
      ]_vars

C10_Witness ==
    /\ history # <<>>
    /\ Last.path = "rejected"
    /\ Len(cache) = 2
    /\ disk # <<>>
    /\ \E i \in 1..Len(cache) : cache[i].val.kind = "buffer"

\* C11: a file request whose key file:{fp} is not in the memory cache while
\* {fp}.wav exists in the output directory returns successfully without
\* invoking the engine and leaves a marker under file:{fp} in the cache; the
\* output directory is left as it was.
C11_FilesystemHit ==
    [][LET res == history'[Len(history')]
           key == <<"file:", res.fp>>
       IN  (/\ Served("file")
            /\ key \notin CacheKeys(cache)
            /\ dirExists
            /\ <<res.fp, ".wav">> \in DOMAIN disk)
           => /\ res.status = "ok"
              /\ res.path = "fs_hit"
              /\ res.calls = 0
              /\ nFileSynth' = nFileSynth
              /\ key \in CacheKeys(cache')
              /\ CacheValue(cache', key) = Marker
              /\ disk' = disk
      ]_vars

\* A file was synthesized, the process restarted, and the next request for
\* the same text and speed was answered from the output directory.
C11_Witness ==
    /\ Len(history) = 2
    /\ nreq = 2
    /\ history[1].mode = "file"
    /\ history[1].path = "miss"
    /\ history[1].status = "ok"
    /\ history[2].path = "fs_hit"
    /\ nFileSynth = 1
    /\ cache = << [key |-> <<"file:", history[2].fp>>, val |-> Marker] >>

\* C12: two requests that pass validation and differ in their text or in
\* their normalized speed get different fingerprints; here for every request
\* and the request served before it.
C12_DistinctFingerprints ==
    [][LET res == history'[Len(history')]
       IN  (/\ nreq' = nreq + 1
            /\ history # <<>>
            /\ Last.path # "rejected"
            /\ res.path # "rejected"
            /\ <<Last.given, Last.nspeed>> # <<res.given, res.nspeed>>)
           => res.fp # Last.fp
      ]_vars

\* The speed a request is served at: the label itself, normal for any other.
Normalized(speed) ==
    IF speed \in {"very_slow", "slow", "normal", "fast", "very_fast"}
    THEN speed ELSE "normal"

\* The states of a second service instance with respect to one fingerprint:
\* file:{fp} cached, {fp}.wav on disk only, and neither.
OtherInstances(fp) ==
    { [cache |-> <<[key |-> <<"file:", fp>>, val |-> Marker]>>,
       disk |-> (<<fp, ".wav">> :> "complete"), dirExists |-> TRUE],
      [cache |-> <<>>, disk |-> (<<fp, ".wav">> :> "complete"), dirExists |-> TRUE],
      [cache |-> <<>>, disk |-> (<<fp, ".wav">> :> "partial"), dirExists |-> TRUE],
      [cache |-> <<>>, disk |-> <<>>, dirExists |-> TRUE],
      [cache |-> <<>>, disk |-> <<>>, dirExists |-> FALSE] }

\* C13: the hash and the file_name of a successful file request depend on
\* the text and the normalized speed only: a second service instance, in
\* any state of its cache and its output directory, returns the same hash
\* and file_name for every request with that text and normalized speed.
C13_MetadataIndependentOfState ==
    [][\A q \in Inputs, fault \in InputFaults :
          LET res == history'[Len(history')]
          IN  (/\ Served("file")
               /\ res.status = "ok"
               /\ res.given = q[1]
               /\ FileRequestOf(q[1], q[2], fault)) =>
                \A q2 \in Inputs :
                   (q2[1] = q[1] /\ Normalized(q2[2]) = Normalized(q[2])) =>
                      \A o \in OtherInstances(res.fp) :
                         LET r2 == handle_tts_request(o.cache, maxsize, <<>>, o.disk,
                                                      o.dirExists, q2[1], q2[2], "none")
                         IN  /\ r2.status = "ok"
                             /\ r2.hash = res.hash
                             /\ r2.file_name = res.file_name
      ]_vars

\* A request with a speed that is no label, answered from the output
\* directory by a service whose cache holds other entries.
C13_Witness ==
    /\ history # <<>>
    /\ Last.mode = "file"
    /\ Last.status = "ok"
    /\ Last.path = "fs_hit"
    /\ ~Last.canonical
    /\ Len(cache) = 2

RECURSIVE SumOf(_)
SumOf(sizes) == IF sizes = <<>> THEN 0 ELSE Head(sizes) + SumOf(Tail(sizes))

\* C14: the generator that alone reads a buffer of L bytes yields chunks of
\* 1 to 8192 bytes, every chunk before another one of exactly 8192 bytes; the
\* chunks yielded so far are the first bytes of the buffer, from byte 0; and
\* when it ends it has yielded ceil(L / 8192) chunks that are the whole buffer.
C14_Chunking ==
    \A n \in DOMAIN readers :
        LET rd == readers[n]
            L == heap[rd.buf].len
            sizes == rd.chunks
        IN  /\ \A i \in 1..Len(sizes) : sizes[i] >= 1 /\ sizes[i] <= 8192
            /\ \A i \in 1..(Len(sizes) - 1) : sizes[i] = 8192
            /\ sizes # <<>> => rd.out = << <<rd.buf, 0, SumOf(sizes)>> >>
            /\ sizes = <<>> => rd.out = <<>>
            /\ SumOf(sizes) <= L
            /\ rd.done =>
                  /\ Len(sizes) = (L + 8191) \div 8192
                  /\ SumOf(sizes) = L

\* A buffer of two full chunks and one byte, read to its end.
C14_Witness ==
    /\ 1 \in DOMAIN readers
    /\ readers[1].done
    /\ readers[1].chunks = <<8192, 8192, 1>>
    /\ heap[readers[1].buf].len = 16385

\* C15: every file request that returns, on the memory-hit, the
\* filesystem-hit and the full-miss path, returns a file_name that is its
\* hash followed by ".wav", the text it was given, unchanged, and, when the
\* speed it was given is one of the five labels, that speed.
C15_ResponseFields ==
    [][LET res == history'[Len(history')]
       IN  (Served("file") /\ res.status = "ok") =>
              /\ res.path \in {"memory_hit", "fs_hit", "miss"}
              /\ res.file_name = <<res.hash, ".wav">>
              /\ res.text = res.given
              /\ \A q \in Inputs, fault \in InputFaults :
                    ~(/\ q[2] \in {"very_slow", "slow", "normal", "fast", "very_fast"}
                      /\ res.given = q[1]
                      /\ res.speed # q[2]
                      /\ FileRequestOf(q[1], q[2], fault))
      ]_vars

\* The text with a character outside ASCII, answered from the output
\* directory after a restart and then from the memory cache.
C15_Witness ==
    /\ Len(history) = 2
    /\ history[1].mode = "file"
    /\ history[1].path = "fs_hit"
    /\ history[2].path = "memory_hit"
    /\ history[2].status = "ok"
    /\ history[2].given = AccentedText
    /\ history[2].text = AccentedText
    /\ disk[history[2].file_name] = "complete"

\* C16: whenever the engine is invoked, for a file or for a stream, it
\* receives the normalized speed of the request and synthesizes with the
\* factor of that label: 1.5 for very_slow, 1.2 for slow, 1.0 for normal, 0.6
\* for fast and 0.4 for very_fast (here in tenths).
C16_SpeedFactors ==
    \A i \in 1..Len(history) :
        LET r == history[i]
        IN  r.calls = 1 =>
              /\ r.engineSpeed = r.nspeed
              /\ r.canonical => r.nspeed \in {"very_slow", "slow", "normal", "fast", "very_fast"}
              /\ ~r.canonical => r.nspeed = "normal"
              /\ r.scale = (CASE r.nspeed = "very_slow" -> 15
                              [] r.nspeed = "slow" -> 12
                              [] r.nspeed = "normal" -> 10
                              [] r.nspeed = "fast" -> 6
                              [] r.nspeed = "very_fast" -> 4)

\* A streaming synthesis at very_fast after a file synthesis.
C16_Witness ==
    /\ history # <<>>
    /\ Last.mode = "stream"
    /\ Last.calls = 1
    /\ Last.status = "ok"
    /\ Last.nspeed = "very_fast"
    /\ Last.scale = 4
    /\ nFileSynth > 0

\* The messages of the errors of request validation, of the directory and of
\* a wrapped engine failure.
InvalidInputMessages == {EmptyTextError, TextTooLongError}

StorageMessages ==
    {"Cannot create audio output directory",
     "Insufficient permissions to write to audio directory"}

NoAudioMessage == StreamFailure("No audio data generated")

SynthesisMessages ==
    {"Failed to synthesize audio", "Failed to synthesize streaming audio",
     "Audio file generation failed", NoAudioMessage}

\* C17: every failure of the engine during a miss reaches the caller as the
\* error of a failed synthesis, which wraps the cause: not as the message the
\* engine raised, and as an error that is neither the one of validation nor
\* the one of the directory.
C17_EngineFailureIsSynthesisError ==
    \A i \in 1..Len(history) :
        LET r == history[i]
        IN  (r.status = "error" /\ r.calls = 1) =>
              /\ r.msg \in SynthesisMessages
              /\ r.msg # EngineCause
              /\ r.msg \notin InvalidInputMessages \cup StorageMessages

\* C18: a request whose text is empty, whitespace only or longer than 10000
\* characters is answered with a 4xx status, on GET /tts and on
\* GET /tts/stream.
C18_InvalidInputIsClientError ==
    \A i \in 1..Len(history) :
        LET r == history[i]
        IN  (Blank(r.given) \/ StrLen(r.given) > 10000) =>
               r.http >= 400 /\ r.http <= 499

\* C19: the requests of one process share one cache: when the cache that
\* served the earlier requests holds the key of a request, that request is a
\* memory hit.
C19_OneCachePerProcess ==
    [][LET res == history'[Len(history')]
           key == <<IF res.mode = "file" THEN "file:" ELSE "stream:", res.fp>>
       IN  (/\ nreq' = nreq + 1
            /\ res.path # "rejected"
            /\ key \in CacheKeys(cache))
           => res.path = "memory_hit" /\ res.calls = 0
      ]_vars

\* The next request to dispatch is a file request that passes validation and
\* whose file is in the output directory, for another fingerprint than the
\* one being synthesized.
CachedRequestWaits ==
    /\ running # Idle
    /\ inbox # <<>>
    /\ LET req == Head(inbox)
           r == Handle(req)
       IN  /\ req.mode = "file"
           /\ r.status = "ok"
           /\ r.calls = 0
           /\ r.fp # Handle(running).fp

\* C20: while a synthesis is in progress, a request for another fingerprint
\* that is already cached can be dispatched and served without waiting for
\* the synthesis to end.
C20_HitsNotBlockedBySynthesis == CachedRequestWaits => ENABLED Dispatch

\* C21: after every successful file request, whatever the configured output
\* directory, audio_url is "/audio/" followed by file_name, and fetching it
\* serves the file of that name in the output directory.
C21_AudioUrlServesTheFile ==
    (history # <<>> /\ Last.mode = "file" /\ Last.status = "ok") =>
        /\ Last.audio_url = <<"/audio/", Last.file_name>>
        /\ Last.file_name \in DOMAIN disk
        /\ StaticFile(Last.audio_url) = disk[Last.file_name]

\* The valid text of the requests of SpecFaults.
FaultText == Rep("a", max_text_length)

\* C22: on a full miss, after the engine returned, the request succeeds only
\* when the output file exists and is not empty: when the file is missing or
\* has length zero the request fails with the error of a failed synthesis
\* and no marker is stored; otherwise it succeeds and the marker is stored.
C22_OutputFileVerified ==
    [][\A fault \in {"none"} \cup EngineOutcomes :
          LET res == history'[Len(history')]
              key == <<"file:", res.fp>>
          IN  (/\ Served("file")
               /\ res.calls = 1
               /\ FileRequestOf(FaultText, "normal", fault)) =>
                IF fault = "none"
                THEN /\ res.status = "ok"
                     /\ disk'[res.file_name] = "complete"
                     /\ key \in CacheKeys(cache')
                ELSE /\ res.status = "error"
                     /\ res.msg \in SynthesisMessages
                     /\ key \notin CacheKeys(cache')
      ]_vars

\* C23: on a full miss, when the output directory cannot be created or the
\* write probe fails, the request fails with the error of the directory,
\* the engine is not invoked, and neither a marker nor a file is stored.
C23_StorageFailure ==
    [][\A fault \in {"mkdir_fail", "perm_fail"} :
          LET res == history'[Len(history')]
              fp == TextHash(FaultText, "normal")
          IN  (/\ <<"file:", fp>> \notin CacheKeys(cache)
               /\ <<fp, ".wav">> \notin DOMAIN disk
               /\ fault = "mkdir_fail" => ~dirExists
               /\ FileRequestOf(FaultText, "normal", fault)) =>
                /\ res.status = "error"
                /\ res.msg \in StorageMessages
                /\ res.msg \notin SynthesisMessages \cup InvalidInputMessages
                /\ res.calls = 0
                /\ nFileSynth' = nFileSynth
                /\ cache' = cache
                /\ disk' = disk
      ]_vars

\* Both failures happened: the directory could not be created, and later it
\* was created but the probe failed; the engine never ran.
C23_Witness ==
    /\ Len(history) = 2
    /\ history[1].msg = "Cannot create audio output directory"
    /\ history[2].msg = "Insufficient permissions to write to audio directory"
    /\ nFileSynth = 0
    /\ cache = <<>>
    /\ disk = <<>>

\* C24: every request answered from the memory cache (a file request by the
\* entry under file:{fp}, a stream request by the entry under stream:{fp})
\* leaves that entry the most recently used one of the cache.
C24_HitPromotes ==
    [][\A mode \in {"file", "stream"} :
          LET res == history'[Len(history')]
              key == <<IF mode = "file" THEN "file:" ELSE "stream:", res.fp>>
          IN  (Served(mode) /\ res.path = "memory_hit") =>
                /\ cache' # <<>>
                /\ cache'[Len(cache')].key = key
      ]_vars

C26_SharedDirectoryMissesSucceed ==
    procs # <<>> =>
        \A p \in Procs :
            (procs[p].pc = "done" /\ procs[p].path = "miss") =>
                procs[p].status = "ok"

\* C27: a file request never returns success for a file that is not
\* completely written, also while another process is writing the file.
C27_NoPartialFileReturned ==
    [][procs # <<>> =>
         \A p \in Procs :
            (/\ procs[p].pc # "done"
             /\ procs'[p].pc = "done"
             /\ procs'[p].status = "ok") =>
                /\ ProcFile(procs'[p]) \in DOMAIN disk'
                /\ disk'[ProcFile(procs'[p])] = "complete"
      ]_vars

\* C28: whenever the cache holds a marker under file:{fp}, the file
\* {fp}.wav is in the output directory.
C28_MarkerImpliesFile ==
    \A i \in 1..Len(cache) :
        cache[i].key[1] = "file:" =>
            /\ cache[i].val = Marker
            /\ dirExists
            /\ <<cache[i].key[2], ".wav">> \in DOMAIN disk

\* A marker is in the cache after a request for which the engine returned
\* without leaving a file, and which stored none.
C28_Witness ==
    /\ Len(history) >= 2
    /\ history[1].msg = "Audio file generation failed"
    /\ \E i \in 1..Len(cache) : cache[i].key[1] = "file:"
    /\ Last.mode = "file"
    /\ Last.path = "miss"
    /\ Last.status = "ok"

\* C29: for requests issued one after another with no engine failure, the
\* engine is invoked at most once for each fingerprint and request shape,
\* also when the requests name more keys than the cache holds.
C29_AtMostOneSynthesis ==
    \A i, j \in 1..Len(accessLog) :
        accessLog[i] = accessLog[j] => i = j

\* C30: the two namespaces share one capacity: a request of either shape
\* that stores a new key in a full cache evicts the least recently used
\* entry, whatever its namespace, and the cache stays within the capacity;
\* a file request whose marker is not in the cache while its file is in the
\* output directory is answered by the filesystem check, without a call of
\* the engine, and stores the marker again.
C30_SharedCapacity ==
    [][\A mode \in {"file", "stream"} :
          LET res == history'[Len(history')]
              key == <<IF mode = "file" THEN "file:" ELSE "stream:", res.fp>>
          IN  (/\ Served(mode)
               /\ res.status = "ok"
               /\ key \notin CacheKeys(cache)) =>
                /\ Len(cache') <= maxsize
                /\ cache'[Len(cache')].key = key
                /\ Len(cache) = maxsize =>
                      CacheKeys(cache') = (CacheKeys(cache) \ {Head(cache).key}) \cup {key}
                /\ (mode = "file" /\ <<res.fp, ".wav">> \in DOMAIN disk) =>
                      /\ res.path = "fs_hit"
                      /\ res.calls = 0
                      /\ nFileSynth' = nFileSynth
      ]_vars

\* A file was synthesized, a stream request then took the place of its
\* marker in a cache of capacity 1, and the next request for the file was
\* answered by the filesystem check and put the marker back.
C30_Witness ==
    /\ maxsize = 1
    /\ nreq = 3
    /\ Len(accessLog) = 2
    /\ accessLog[1][1] = "text_to_speech"
    /\ accessLog[2][1] = "text_to_speech_streaming"
    /\ Last.mode = "file"
    /\ Last.path = "fs_hit"
    /\ cache = <<[key |-> <<"file:", Last.fp>>, val |-> Marker]>>

\* C31: a stream request answered from the cache starts at byte 0 of the
\* cached buffer whatever the earlier readers left behind: when it is
\* consumed alone, to its end, it has delivered the complete buffer.
C31_HitStartsAtZero ==
    \A i \in 1..Len(history) :
        LET n == history[i].n
        IN  (/\ history[i].mode = "stream"
             /\ history[i].path = "memory_hit"
             /\ n \in DOMAIN readers
             /\ readers[n].solo
             /\ readers[n].done
             /\ ~readers[n].closed
             /\ readers[n].doneAt = n) =>
                readers[n].out = Complete(n)

\* The first reader was closed after one of the two chunks; the second
\* request hit the cache and, read alone, delivered the whole buffer.
C31_Witness ==
    /\ TwoReturned("stream")
    /\ history[2].path = "memory_hit"
    /\ history[1].n \in DOMAIN readers
    /\ history[2].n \in DOMAIN readers
    /\ readers[history[1].n].closed
    /\ readers[history[1].n].chunks = <<chunk_size>>
    /\ readers[history[2].n].solo
    /\ readers[history[2].n].done
    /\ ~readers[history[2].n].closed
    /\ readers[history[2].n].doneAt = history[2].n
    /\ readers[history[2].n].out = Complete(history[2].n)

\* The buffer stored under a stream key, where c holds the key.
CachedBuffer(c, k) == CacheValue(c, k).id

\* C32: the content of a cached stream buffer never changes while it is in
\* the cache: after every read, hit and reset of the position, each stream
\* key that stays in the cache holds the same buffer, of the same length.
C32_BufferContentStable ==
    [][\A k \in CacheKeys(cache) \cap CacheKeys(cache') :
          k[1] = "stream:" =>
             /\ CachedBuffer(cache', k) = CachedBuffer(cache, k)
             /\ CachedBuffer(cache, k) \in DOMAIN heap'
             /\ heap'[CachedBuffer(cache, k)].len = heap[CachedBuffer(cache, k)].len
             /\ heap'[CachedBuffer(cache, k)].len = ResumeLen
      ]_vars

\* The cached buffer was read to its end by the first request, hit and
\* reset by the second, whose reader has read the first of its two chunks.
C32_Witness ==
    /\ TwoReturned("stream")
    /\ nStreamSynth = 1
    /\ history[2].path = "memory_hit"
    /\ history[1].n \in DOMAIN readers
    /\ history[2].n \in DOMAIN readers
    /\ readers[history[1].n].done
    /\ readers[history[1].n].out = Complete(history[1].n)
    /\ readers[history[2].n].chunks = <<chunk_size>>
    /\ Len(cache) = 1
    /\ heap[cache[1].val.id] = [len |-> ResumeLen, pos |-> chunk_size]

\* C33: a file request whose key file:{fp} is in the cache returns at once
\* and changes nothing: the engine is not invoked, the output directory is
\* neither created nor written nor read (the answer is the same with no
\* directory at all and under every failure of the directory), and the
\* cache holds the same keys as before.
C33_MemoryHitChangesNothing ==
    [][LET res == history'[Len(history')]
       IN  (/\ Served("file")
            /\ <<"file:", res.fp>> \in CacheKeys(cache)) =>
              /\ res.path = "memory_hit"
              /\ res.status = "ok"
              /\ res.calls = 0
              /\ nFileSynth' = nFileSynth
              /\ disk' = disk
              /\ dirExists' = dirExists
              /\ CacheKeys(cache') = CacheKeys(cache)
              /\ Len(cache') = Len(cache)
              /\ \A fault \in FileFaults :
                    LET r == handle_tts_request(cache, maxsize, heap, <<>>, FALSE,
                                                res.given, res.nspeed, fault)
                    IN  /\ r.path = "memory_hit"
                        /\ r.file_name = res.file_name
                        /\ r.disk = <<>>
                        /\ ~r.dirExists
      ]_vars

\* A file request hit its marker in a cache that also holds a later entry.
C33_Witness ==
    /\ history # <<>>
    /\ Last.mode = "file"
    /\ Last.path = "memory_hit"
    /\ Last.n = 3
    /\ Len(cache) = 2
    /\ cache[1].key = <<"file:", Last.fp>>
    /\ cache[2].key[1] = "stream:"

\* C34: when the streaming synthesis yields no chunk, the stream request
\* that missed fails with the error of a failed synthesis, no buffer is
\* stored under stream:{fp}, no generator is returned, and the cache is
\* unchanged.
C34_NoChunksIsSynthesisError ==
    [][LET res == history'[Len(history')]
           key == <<"stream:", TextHash(FaultText, "normal")>>
       IN  (/\ key \notin CacheKeys(cache)
            /\ StreamRequestOf(FaultText, "normal", "engine_no_chunks", chunk_size)) =>
              /\ res.status = "error"
              /\ res.msg = NoAudioMessage
              /\ res.msg \in SynthesisMessages
              /\ res.calls = 1
              /\ key \notin CacheKeys(cache')
              /\ cache' = cache
              /\ heap' = heap
              /\ DOMAIN readers' \subseteq DOMAIN readers
      ]_vars

\* A synthesis without a chunk failed, and the next request for the
\* fingerprint synthesized and stored the buffer.
C34_Witness ==
    /\ Len(history) = 2
    /\ history[1].mode = "stream"
    /\ history[1].msg = NoAudioMessage
    /\ history[1].calls = 1
    /\ history[2].path = "miss"
    /\ history[2].status = "ok"
    /\ nStreamSynth = 2

\* What the other entry point answers to the input of the last request.
OtherEntryPoint ==
    IF Last.mode = "file"
    THEN handle_tts_streaming_request(cache, maxsize, heap, disk, dirExists,
                                      inbox[1].text, inbox[1].speed, "none",
                                      chunk_size, nreq + 1)
    ELSE handle_tts_request(cache, maxsize, heap, disk, dirExists,
                            inbox[1].text, inbox[1].speed, "none")

\* C35: the two entry points validate alike: for every text and speed both
\* reject or both accept, they reject with the same error, and when they
\* accept they normalize the speed to the same label and compute the same
\* fingerprint.
C35_SameValidation ==
    history # <<>> =>
        /\ (Last.path = "rejected") = (OtherEntryPoint.path = "rejected")
        /\ Last.path = "rejected" =>
              /\ OtherEntryPoint.msg = Last.msg
              /\ Last.msg \in InvalidInputMessages
        /\ Last.path # "rejected" =>
              /\ OtherEntryPoint.nspeed = Last.nspeed
              /\ OtherEntryPoint.fp = Last.fp
              /\ Last.nspeed \in valid_speeds
              /\ Last.fp = TextHash(inbox[1].text, Last.nspeed)

\* Both entry points were called with a text of 10001 characters and a
\* speed that is no label, and the stream request was rejected.
C35_Witness ==
    /\ nreq = 2
    /\ inbox[1].text = Rep("a", max_text_length + 1)
    /\ inbox[1].speed = "banana"
    /\ Last.mode = "stream"
    /\ Last.msg = TextTooLongError

\* C38: whitespace is trimmed for the emptiness test only: the fingerprint
\* is that of the text as received, so a text with whitespace around it
\* gets another fingerprint, cache key and file than the trimmed text, a
\* file request returns the text as received, and the limit of 10000
\* characters applies to the length of the text as received.
C38_TextUsedAsReceived ==
    history # <<>> =>
        LET received == inbox[1].text
            fp == Concat(received, SpeedStr(Last.nspeed))
            trimmed == Concat(Strip(received), SpeedStr(Last.nspeed))
            ns == IF Last.mode = "file" THEN "file:" ELSE "stream:"
        IN  /\ (Last.msg = EmptyTextError) = (Strip(received) = <<>>)
            /\ (Last.msg = TextTooLongError) =
                  (Strip(received) # <<>> /\ StrLen(received) > 10000)
            /\ Last.path # "rejected" =>
                  /\ Last.fp = fp
                  /\ <<ns, fp>> \in CacheKeys(cache)
                  /\ Last.mode = "file" =>
                        /\ Last.text = received
                        /\ Last.file_name = <<fp, ".wav">>
                        /\ <<fp, ".wav">> \in DOMAIN disk
                  /\ Strip(received) # received =>
                        /\ Last.fp # trimmed
                        /\ <<ns, trimmed>> \notin CacheKeys(cache)
                        /\ <<trimmed, ".wav">> \notin DOMAIN disk

\* A text of 10000 characters that starts with a space was synthesized to
\* the file of its own fingerprint.
C38_Witness ==
    /\ history # <<>>
    /\ inbox[1].text = PaddedFull
    /\ inbox[1].speed = "fast"
    /\ Last.mode = "file"
    /\ Last.status = "ok"
    /\ Last.text = PaddedFull
    /\ StrLen(Strip(PaddedFull)) = max_text_length - 1
    /\ DOMAIN disk = {<<Concat(PaddedFull, SpeedStr("fast")), ".wav">>}

\* The stream keys that a step removes from the cache.
EvictedKeys == {k \in CacheKeys(cache) \ CacheKeys(cache') : k[1] = "stream:"}

\* The generators that read the buffer of a key the step evicts.
Detached ==
    {n \in Active : \E k \in EvictedKeys : CachedBuffer(cache, k) = readers[n].buf}

\* C37: the eviction of stream:{fp} while a generator reads its buffer
\* leaves the generator and its buffer as they were; a later request for
\* the fingerprint synthesizes a new buffer, apart from the one being read;
\* and a generator whose buffer no other request shared delivers the
\* complete buffer, evicted or not.
C37_EvictionKeepsReaderWhole ==
    [][/\ \A n \in Detached :
             /\ n \in DOMAIN readers'
             /\ readers'[n] = readers[n]
             /\ readers[n].buf \in DOMAIN heap'
             /\ heap'[readers[n].buf] = heap[readers[n].buf]
       /\ LET res == history'[Len(history')]
          IN  (/\ Served("stream")
               /\ <<"stream:", res.fp>> \notin CacheKeys(cache)) =>
                 /\ res.path = "miss"
                 /\ res.calls = 1
                 /\ CachedBuffer(cache', <<"stream:", res.fp>>) \notin DOMAIN heap
                 /\ \A n \in Active :
                       readers'[n].buf # CachedBuffer(cache', <<"stream:", res.fp>>)
       /\ \A n \in Active :
             (/\ nreq' = nreq
              /\ nStreamSynth = nreq
              /\ n \in DOMAIN readers' => readers'[n].done) =>
                readers[n].out = Complete(n)
      ]_vars

\* In a cache of capacity 1: the first generator has read one of its two
\* chunks, a request for another fingerprint evicted its buffer, a request
\* for the first fingerprint synthesized a new buffer, and the first
\* generator has read its buffer to the end.
C37_Witness ==
    /\ maxsize = 1
    /\ nreq = 3
    /\ nStreamSynth = 3
    /\ 1 \in Active
    /\ 3 \in Active
    /\ readers[1].out = Complete(1)
    /\ readers[1].buf = 1
    /\ readers[3].buf = 3
    /\ readers[3].chunks = <<chunk_size>>
    /\ cache = <<[key |-> <<"stream:", Last.fp>>, val |-> Buffer(3)]>>
    /\ heap[1].len = ResumeLen

====
